---- MODULE Spec2Model ----
(***************************************************************************)
(* A model of stfs.js: the STFS container reader.  The library keeps its   *)
(* state in global variables; every exported function is one action.  The  *)
(* container is an ArrayBuffer, modelled as its length plus its bytes (a   *)
(* background byte and the bytes that differ from it), and every read goes *)
(* through the byte readers exactly as in the source, including what       *)
(* JavaScript does with a read past the end of the buffer (undefined).     *)
(***************************************************************************)
EXTENDS Integers, Sequences, FiniteSets, TLC

VARIABLES
    STFS_FileBuffer,      \* the ArrayBuffer (and its Uint8Array view), or NoBuffer
    STFS_Dirty,           \* set by STFS_LoadPackage before the magic check
    STFS_PackageLoaded,   \* set by STFS_LoadPackage after the magic check
    STFS_TableSizeShift,  \* 0 or 1
    STFS_FileTable,       \* the parsed file table
    last,                 \* the last call of the container API and what it did
    offPrev,              \* the STFS_BlockToOffset call before the last one
    offLast,              \* the last STFS_BlockToOffset call
    hashLast              \* the last STFS_BlockToHashOffset call

vars == << STFS_FileBuffer, STFS_Dirty, STFS_PackageLoaded, STFS_TableSizeShift,
           STFS_FileTable, last, offPrev, offLast, hashLast >>

containerVars == << STFS_FileBuffer, STFS_Dirty, STFS_PackageLoaded,
                    STFS_FileTable, last >>

addrVars == << offPrev, offLast, hashLast >>

----------------------------------------------------------------------------
(* Program constants (decimal; the source writes them in hexadecimal).     *)

STFS_CON == 1129270816        \* 0x434F4E20
STFS_LIVE == 1279874629       \* 0x4C495645
STFS_PIRS == 1346982483       \* 0x50495253
MinLength == 38682            \* 0x971A, the length STFS_LoadPackage compares with
DataBase == 49152             \* 0xC000
BlockSize == 4096             \* 0x1000
HashBaseV0 == 45056           \* 0xB000
HashRecordSize == 24          \* 0x18
NextPtrField == 21            \* 0x15
BlocksPerTable == 170         \* 0xAA
BlocksPerL1 == 28900          \* 0x70E4
TableStrideV0 == 171          \* 0xAB
TableStrideV1 == 172          \* 0xAC
RecordSize == 64              \* 0x40
ChainEnd == 16777215          \* 0xFFFFFF
RootDir == 65535              \* 0xffff
EntryIdOffset == 832          \* 0x340
VolumeDescOffset == 889       \* 0x379
NameLenField == 40            \* 0x28
BlockCountField == 41         \* 0x29
StartBlockField == 47         \* 0x2F
ParentField == 50             \* 0x32
FileSizeField == 52           \* 0x34

----------------------------------------------------------------------------
(* Bounds of the model.                                                    *)

BufBlocks == 5      \* data blocks the large test containers hold
Window == 1         \* block indices taken on each side of a layout boundary
MaxCount == 2       \* largest blockCount handed to STFS_GetBlocksFromBlock

----------------------------------------------------------------------------
(* The buffer.  Undef is what indexing a Uint8Array past its end yields.   *)

Undef == -1
NoBuffer == [len |-> -1, fill |-> 0, bytes |-> << >>]
IsNoBuffer(buf) == buf.len < 0

\* STFS_UInt8View[offset]
ViewAt(buf, offset) ==
    IF offset < 0 \/ offset >= buf.len THEN Undef
    ELSE IF offset \in DOMAIN buf.bytes THEN buf.bytes[offset]
    ELSE buf.fill

\* ToInt32 of a bitwise operand: undefined becomes 0
ToInt(v) == IF v = Undef THEN 0 ELSE v

\* The readers below are used once the STFS_Dirty guard has passed.
Read8(buf, offset) == ViewAt(buf, offset)

Read16(buf, offset) ==
    (ToInt(Read8(buf, offset)) * 256 + ToInt(Read8(buf, offset + 1))) % 65536

\* ((hi << 16) | lo) & 0xffffffff is a signed 32-bit value in JavaScript
Read32(buf, offset) ==
    LET hi == Read16(buf, offset)
        lo == Read16(buf, offset + 2)
    IN  IF hi >= 32768 THEN (hi - 65536) * 65536 + lo ELSE hi * 65536 + lo

Read24(buf, offset) == Read32(buf, offset - 1) % 16777216

Swap24(i) ==
    ((i % 256) * 65536 + ((i \div 256) % 256) * 256 + (i \div 65536)) % 16777216

----------------------------------------------------------------------------
(* Address translation.  x << STFS_TableSizeShift is x * 2^shift; the      *)
(* operand of << is truncated to an integer, so b / 0xAA + 1 is            *)
(* floor(b / 0xAA) + 1 for the non-negative block numbers used here.       *)

Shl(x, shift) == IF shift = 1 THEN 2 * x ELSE x

\* A variant of STFS_BlockToOffset that takes the position inside the table
\* (b % 0xAA) where the source takes the table number (b / 0xAA).
BlockToOffsetModulo(blockNum, shift) ==
    LET a == IF blockNum >= BlocksPerTable
             THEN Shl((blockNum % BlocksPerTable) + 1, shift) ELSE 0
        c == IF blockNum >= BlocksPerL1
             THEN Shl((blockNum \div BlocksPerL1) + 1, shift) ELSE 0
    IN  DataBase + (blockNum + a + c) * BlockSize

BlockToOffset(blockNum, shift) ==
    LET a == IF blockNum >= BlocksPerTable
             THEN Shl((blockNum \div BlocksPerTable) + 1, shift) ELSE 0
        c == IF blockNum >= BlocksPerL1
             THEN Shl((blockNum \div BlocksPerL1) + 1, shift) ELSE 0
    IN  DataBase + (blockNum + a + c) * BlockSize

BlockToHashOffset(blockNum, shift) ==
    LET record == blockNum % BlocksPerTable
        t0 == (blockNum \div BlocksPerTable)
                 * (IF shift = 1 THEN TableStrideV1 ELSE TableStrideV0)
        t1 == IF blockNum >= BlocksPerTable
              THEN Shl((blockNum \div BlocksPerL1) + 1, shift) ELSE 0
        t2 == IF blockNum >= BlocksPerL1 THEN Shl(1, shift) ELSE 0
        tableIndex == t0 + t1 + t2
    IN  (IF shift = 0 THEN HashBaseV0 ELSE 0) + tableIndex * BlockSize
            + record * HashRecordSize

----------------------------------------------------------------------------
(* Chain walk.  The loop body reads through STFS_Read24, which throws      *)
(* unless STFS_Dirty; with blockCount <= 0 nothing is read.                *)

RECURSIVE WalkChain(_, _, _, _)
WalkChain(buf, shift, blocks, blockCount) ==
    IF blockCount > 0
    THEN LET cur == blocks[Len(blocks)]
             hashOffset == BlockToHashOffset(cur, shift)
             newBlock == Read24(buf, hashOffset + NextPtrField)
         IN  IF newBlock = cur \/ newBlock = ChainEnd
             THEN blocks
             ELSE WalkChain(buf, shift, Append(blocks, newBlock), blockCount - 1)
    ELSE blocks

GetBlocksFromBlock(buf, dirty, shift, blockNum, blockCount) ==
    IF blockCount > 0 /\ ~dirty
    THEN [outcome |-> "NoPackageLoaded", blocks |-> << >>]
    ELSE [outcome |-> "ok",
          blocks |-> WalkChain(buf, shift, << blockNum >>, blockCount)]

----------------------------------------------------------------------------
(* File table.                                                             *)

RECURSIVE ReadASCIIString(_, _, _, _)
ReadASCIIString(buf, i, end, str) ==
    IF i >= end THEN str
    ELSE LET read == ViewAt(buf, i)
         IN  IF read = 0 THEN str
             ELSE ReadASCIIString(buf, i + 1, end, Append(str, ToInt(read)))

\* The object STFS_InitFS pushes for the record at offset.
DecodeEntry(buf, offset) ==
    LET raw == ToInt(Read8(buf, offset + NameLenField))
        nameLength == raw % 64
    IN  [fileName |-> ReadASCIIString(buf, offset, offset + nameLength, << >>),
         nameLength |-> nameLength,
         flags |-> (raw \div 64) % 4,
         parentDirectory |-> Read16(buf, offset + ParentField),
         fileSize |-> Read32(buf, offset + FileSizeField),
         startingBlock |-> Swap24(Read24(buf, offset + StartBlockField)),
         numOfBlocks |-> Swap24(Read24(buf, offset + BlockCountField))]

\* The inner while (true) loop for one chain block, from offset on: it pushes
\* the records up to the first one whose first byte == 0.  Past the end of
\* the buffer STFS_Read8 yields undefined, which never == 0: a scan that gets
\* there pushes entries for ever (hang; entries holds those inside the buffer).
ScanRecords(buf, offset) ==
    LET At(i) == offset + i * RecordSize
        Ends(i) == Read8(buf, At(i)) = 0 \/ At(i) >= buf.len
        room == IF offset >= buf.len THEN 0
                ELSE (buf.len - offset + RecordSize - 1) \div RecordSize
        n == CHOOSE i \in 0..room : Ends(i) /\ \A j \in 0..(i - 1) : ~Ends(j)
    IN  [entries |-> [k \in 1..n |-> DecodeEntry(buf, At(k - 1))],
         hang |-> Read8(buf, At(n)) # 0]

\* The outer for loop over tableBlocks.  perBlock: entries pushed for each
\* chain block; stopAt: the table's length when a record with first byte 0
\* was first met (-1: never).
RECURSIVE ScanTable(_, _, _, _, _)
ScanTable(buf, shift, tableBlocks, i, acc) ==
    IF i > Len(tableBlocks) THEN acc
    ELSE LET r == ScanRecords(buf, BlockToOffset(tableBlocks[i], shift))
             table == acc.table \o r.entries
             next == [table |-> table,
                      perBlock |-> Append(acc.perBlock, Len(r.entries)),
                      stopAt |-> IF acc.stopAt = -1 /\ ~r.hang
                                 THEN Len(table) ELSE acc.stopAt,
                      hang |-> r.hang]
         IN  IF r.hang THEN next
             ELSE ScanTable(buf, shift, tableBlocks, i + 1, next)

\* STFS_TableSizeShift after line 201: set to 1 unless bits 12..15 of
\* entryID + 0xFFF are 0xB, and never set back to 0 here.
ShiftAfterInit(buf, shift) ==
    IF (((Read32(buf, EntryIdOffset) % 65536) + 4095) \div 4096) % 16 # 11
    THEN 1 ELSE shift

----------------------------------------------------------------------------
(* Extraction and path reconstruction.                                     *)

\* The for loop of STFS_ReadFile.  new Uint8Array(buffer, offset, length)
\* throws a RangeError for a negative length or a range that leaves the
\* buffer; with no buffer (null) it yields an empty array.
RECURSIVE CopyBlocks(_, _, _, _, _, _)
CopyBlocks(buf, shift, blocks, i, readRemaining, acc) ==
    IF i > Len(blocks) THEN [outcome |-> "ok", slices |-> acc]
    ELSE LET offset == BlockToOffset(blocks[i], shift)
             length == IF readRemaining < BlockSize THEN readRemaining ELSE BlockSize
             slice == IF IsNoBuffer(buf) THEN [offset |-> 0, length |-> 0]
                      ELSE [offset |-> offset, length |-> length]
         IN  IF ~IsNoBuffer(buf)
                  /\ (length < 0 \/ offset > buf.len \/ offset + length > buf.len)
             THEN [outcome |-> "RangeError", slices |-> << >>]
             ELSE IF readRemaining - BlockSize <= 0
             THEN [outcome |-> "ok", slices |-> Append(acc, slice)]
             ELSE CopyBlocks(buf, shift, blocks, i + 1,
                             readRemaining - BlockSize, Append(acc, slice))

\* A variant of the copy loop that always takes a whole block.
ReadFileWholeBlocks(buf, dirty, shift, file) ==
    IF (file.flags \div 2) % 2 = 1
    THEN [outcome |-> "IsDirectory", blocks |-> << >>, slices |-> << >>]
    ELSE LET walk == GetBlocksFromBlock(buf, dirty, shift,
                                        file.startingBlock, file.numOfBlocks)
             copy == CopyBlocks(buf, shift, walk.blocks, 1, file.fileSize, << >>)
         IN  IF walk.outcome # "ok"
             THEN [outcome |-> walk.outcome, blocks |-> << >>, slices |-> << >>]
             ELSE [outcome |-> copy.outcome, blocks |-> walk.blocks,
                   slices |-> [k \in DOMAIN copy.slices |->
                                  [copy.slices[k] EXCEPT !.length = BlockSize]]]

ReadFile(buf, dirty, shift, file) ==
    IF (file.flags \div 2) % 2 = 1
    THEN [outcome |-> "IsDirectory", blocks |-> << >>, slices |-> << >>]
    ELSE LET walk == GetBlocksFromBlock(buf, dirty, shift,
                                        file.startingBlock, file.numOfBlocks)
             copy == CopyBlocks(buf, shift, walk.blocks, 1, file.fileSize, << >>)
         IN  IF walk.outcome # "ok"
             THEN [outcome |-> walk.outcome, blocks |-> << >>, slices |-> << >>]
             ELSE [outcome |-> copy.outcome, blocks |-> walk.blocks,
                   slices |-> copy.slices]

\* The while loop of STFS_GetFilePath.  Every step after the first lands on
\* an entry of the table, so a walk of more than Len(table) steps has met an
\* entry twice and never ends (hang).  An index outside the table yields
\* undefined, and reading its parentDirectory throws a TypeError.
RECURSIVE PathWalk(_, _, _, _)
PathWalk(table, file, filePath, steps) ==
    IF file.parentDirectory = RootDir
    THEN [outcome |-> "ok", path |-> filePath, steps |-> steps]
    ELSE IF steps > Len(table)
    THEN [outcome |-> "Hang", path |-> << >>, steps |-> steps]
    ELSE IF file.parentDirectory >= Len(table)
    THEN [outcome |-> "TypeError", path |-> << >>, steps |-> steps]
    ELSE LET parent == table[file.parentDirectory + 1]
         IN  PathWalk(table, parent, << parent.fileName >> \o filePath, steps + 1)

GetFilePath(table, file) == PathWalk(table, file, << file.fileName >>, 0)

----------------------------------------------------------------------------
(* Containers handed to STFS_LoadPackage.  Bytes are written big-endian,   *)
(* as STFS_Read16/24/32 read them; the two 24-bit fields of a file record  *)
(* are stored byte-reversed, as STFS_Swap24 undoes.                        *)

B8(o, v) == o :> v
B16(o, v) == (o :> (v \div 256)) @@ ((o + 1) :> (v % 256))
B24(o, v) == (o :> (v \div 65536)) @@ B16(o + 1, v % 65536)
B32(o, v) == B16(o, v \div 65536) @@ B16(o + 2, v % 65536)

Header(magic, entryID, rootStart, rootCount) ==
    B32(0, magic) @@ B32(EntryIdOffset, entryID)
        @@ B16(VolumeDescOffset + 2, rootCount) @@ B24(VolumeDescOffset + 4, rootStart)

\* The next-block pointer of block b's chain record
NextPtr(b, shift, next) == B24(BlockToHashOffset(b, shift) + NextPtrField, next)

\* The file record number i of the (first) table block, block 0
Record(i, name, flags, parent, size, start, count) ==
    LET o == DataBase + i * RecordSize
    IN  B8(o, name) @@ B8(o + NameLenField, flags * 64 + 1)
            @@ B24(o + BlockCountField, Swap24(count))
            @@ B24(o + StartBlockField, Swap24(start))
            @@ B16(o + ParentField, parent) @@ B32(o + FileSizeField, size)

BigLength == DataBase + BufBlocks * BlockSize
RecordsPerBlock == BlockSize \div RecordSize

EntryIdV0 == 44302      \* 0xAD0E: bits 12..15 of entryID + 0xFFF are 0xB
EntryIdV1 == 38682      \* 0x971A: they are not
BadMagic == 1398031955  \* "STFS": none of the three tags

\* A table of files and directories: a one-block file, a two-block file with
\* a partial last block, an empty file, a directory with a file whose chain
\* is shorter than its size, two directories that name each other as parent,
\* an entry whose parent index is outside the table, and a file whose block
\* lies past the end of the buffer.
FilesImage(magic, shift) ==
    [len |-> BigLength, fill |-> 0,
     bytes |->
        Header(magic, IF shift = 1 THEN EntryIdV1 ELSE EntryIdV0, 0, 1)
        @@ NextPtr(0, shift, ChainEnd) @@ NextPtr(1, shift, ChainEnd)
        @@ NextPtr(2, shift, 3) @@ NextPtr(3, shift, ChainEnd)
        @@ NextPtr(4, shift, ChainEnd)
        @@ Record(0, 97, 0, RootDir, 4096, 1, 1)
        @@ Record(1, 98, 0, RootDir, 5000, 2, 2)
        @@ Record(2, 100, 2, RootDir, 0, 0, 0)
        @@ Record(3, 99, 0, 2, 8192, 4, 1)
        @@ Record(4, 101, 2, 5, 0, 0, 0)
        @@ Record(5, 102, 2, 4, 0, 0, 0)
        @@ Record(6, 103, 0, 9, 0, 1, 0)
        @@ Record(7, 104, 0, RootDir, 100, BufBlocks, 1)]

\* A two-block table: block 0 holds one record, then a record whose first
\* byte is 0, then a non-zero record; block 1 holds one more record.
StopImage(magic) ==
    [len |-> BigLength, fill |-> 0,
     bytes |->
        Header(magic, EntryIdV0, 0, 2)
        @@ NextPtr(0, 0, 1) @@ NextPtr(1, 0, ChainEnd)
        @@ Record(0, 97, 0, RootDir, 0, 2, 0)
        @@ Record(2, 122, 0, RootDir, 0, 2, 0)
        @@ Record(RecordsPerBlock, 109, 0, RootDir, 0, 2, 0)]

\* A one-block table whose block holds 64 records with a non-zero first
\* byte; the bytes that follow the block (data block 1) start with a
\* non-zero byte too.
FullImage(magic) ==
    [len |-> BigLength, fill |-> 0,
     bytes |->
        Header(magic, EntryIdV0, 0, 1) @@ NextPtr(0, 0, ChainEnd)
        @@ [o \in {DataBase + i * RecordSize : i \in 0..RecordsPerBlock} |-> 65]
        @@ [o \in {DataBase + i * RecordSize + ParentField + d :
                      i \in 0..RecordsPerBlock, d \in 0..1} |-> 255]]

\* A container of a given length with only its magic set.
PlainImage(magic, len) ==
    [len |-> len, fill |-> 0, bytes |-> Header(magic, 0, 0, 0)]

Magics == {STFS_CON, STFS_LIVE, STFS_PIRS, BadMagic}

Buffers ==
    {PlainImage(m, MinLength + d) : m \in Magics, d \in -1..1}
        \cup {FilesImage(STFS_CON, 0), FilesImage(STFS_LIVE, 1),
              FilesImage(BadMagic, 0), StopImage(STFS_PIRS), FullImage(STFS_CON)}

\* Entries a caller may hold without a table: a one-block file and a
\* two-block file with a partial last block.
SampleFiles ==
    {[fileName |-> << 97 >>, nameLength |-> 1, flags |-> 0,
      parentDirectory |-> RootDir, fileSize |-> 4096,
      startingBlock |-> 1, numOfBlocks |-> 1],
     [fileName |-> << 98 >>, nameLength |-> 1, flags |-> 0,
      parentDirectory |-> 0, fileSize |-> 5000,
      startingBlock |-> 2, numOfBlocks |-> 2]}

Range(seq) == {seq[i] : i \in DOMAIN seq}

\* Block numbers handed to the chain walk
WalkBlocks == 0..(BufBlocks - 1)

\* Block numbers handed to the address translation: the neighbourhoods of
\* block 0, of the first boundaries of both periods (0xAA, 2 * 0xAA, 0x70E4,
\* 2 * 0x70E4), of a block inside the first table's range, and of a late
\* boundary (16 * 0x70E4, whose byte offsets still fit 31 bits)
Around(c) == {b \in (c - Window)..(c + Window) : b >= 0}
SampleBlocks ==
    Around(0) \cup Around(BlocksPerTable - 8) \cup Around(BlocksPerTable)
        \cup Around(2 * BlocksPerTable) \cup Around(BlocksPerL1)
        \cup Around(2 * BlocksPerL1) \cup Around(16 * BlocksPerL1)

----------------------------------------------------------------------------
(* The state machine.  last records the last call: its arguments, the      *)
(* flags it found, and its outcome: "ok", the exception thrown, or "Hang"  *)
(* for a loop that never ends (the page is then stuck: nothing follows).   *)

NoFile == [fileName |-> << >>, nameLength |-> 0, flags |-> 0,
           parentDirectory |-> RootDir, fileSize |-> 0,
           startingBlock |-> 0, numOfBlocks |-> 0]

NoCall == [op |-> "none", outcome |-> "ok", loaded |-> FALSE, dirty |-> FALSE,
           len |-> 0, magic |-> 0, blockNum |-> 0, blockCount |-> 0,
           file |-> NoFile, blocks |-> << >>, slices |-> << >>,
           perBlock |-> << >>, stopAt |-> -1, path |-> << >>, steps |-> 0]

Call(op, outcome) ==
    [NoCall EXCEPT !.op = op, !.outcome = outcome,
                   !.loaded = STFS_PackageLoaded, !.dirty = STFS_Dirty]

Running == last.outcome # "Hang"

Init ==
    /\ STFS_FileBuffer = NoBuffer
    /\ STFS_Dirty = FALSE
    /\ STFS_PackageLoaded = FALSE
    /\ STFS_TableSizeShift = 0
    /\ STFS_FileTable = << >>
    /\ last = NoCall
    /\ offPrev = [blockNum |-> -1, offset |-> 0]
    /\ offLast = [blockNum |-> -1, offset |-> 0]
    /\ hashLast = [blockNum |-> -1, offset |-> 0]

\* A variant of the length check that compares with <
LoadOutcomeStrict(abuf) ==
    IF STFS_Dirty THEN "DirtyState"
    ELSE IF STFS_PackageLoaded THEN "AlreadyLoaded"
    ELSE IF abuf.len < MinLength THEN "TooShort"
    ELSE IF Read32(abuf, 0) \in {STFS_CON, STFS_LIVE, STFS_PIRS} THEN "ok"
    ELSE "NotValidArchive"

\* The outcome of STFS_LoadPackage(abuf) from the current flags
LoadOutcome(abuf) ==
    IF STFS_Dirty THEN "DirtyState"
    ELSE IF STFS_PackageLoaded THEN "AlreadyLoaded"
    ELSE IF abuf.len <= MinLength THEN "TooShort"
    ELSE IF Read32(abuf, 0) \in {STFS_CON, STFS_LIVE, STFS_PIRS} THEN "ok"
    ELSE "NotValidArchive"

STFS_LoadPackage(abuf) ==
    /\ Running
    /\ LET outcome == LoadOutcome(abuf)
           assigned == outcome \in {"ok", "NotValidArchive"}
       IN  /\ STFS_Dirty' = (assigned \/ STFS_Dirty)
           /\ STFS_FileBuffer' = IF assigned THEN abuf ELSE STFS_FileBuffer
           /\ STFS_PackageLoaded' = (outcome = "ok" \/ STFS_PackageLoaded)
           /\ last' = [Call("LoadPackage", outcome) EXCEPT
                          !.len = abuf.len, !.magic = Read32(abuf, 0)]
    /\ UNCHANGED << STFS_TableSizeShift, STFS_FileTable, addrVars >>

\* STFS_FileTable = false is modelled as the empty table: indexing either
\* yields undefined.
STFS_Reset ==
    /\ Running
    /\ STFS_FileBuffer' = NoBuffer
    /\ STFS_PackageLoaded' = FALSE
    /\ STFS_Dirty' = FALSE
    /\ STFS_TableSizeShift' = 0
    /\ STFS_FileTable' = << >>
    /\ last' = Call("Reset", "ok")
    /\ UNCHANGED addrVars

STFS_InitFS ==
    /\ Running
    /\ IF ~STFS_PackageLoaded
       THEN /\ last' = Call("InitFS", "NoPackageLoaded")
            /\ UNCHANGED << STFS_TableSizeShift, STFS_FileTable >>
       ELSE LET buf == STFS_FileBuffer
                shift == ShiftAfterInit(buf, STFS_TableSizeShift)
                walk == GetBlocksFromBlock(buf, STFS_Dirty, shift,
                                           Read24(buf, VolumeDescOffset + 4),
                                           Read16(buf, VolumeDescOffset + 2))
                scan == ScanTable(buf, shift, walk.blocks, 1,
                                  [table |-> << >>, perBlock |-> << >>,
                                   stopAt |-> -1, hang |-> FALSE])
            IN  /\ STFS_TableSizeShift' = shift
                /\ STFS_FileTable' = scan.table
                /\ last' = [Call("InitFS", IF scan.hang THEN "Hang" ELSE "ok")
                               EXCEPT !.blocks = walk.blocks,
                                      !.blockNum = Read24(buf, VolumeDescOffset + 4),
                                      !.blockCount = Read16(buf, VolumeDescOffset + 2),
                                      !.perBlock = scan.perBlock,
                                      !.stopAt = scan.stopAt]
    /\ UNCHANGED << STFS_FileBuffer, STFS_Dirty, STFS_PackageLoaded, addrVars >>

STFS_GetBlocksFromBlock(blockNum, blockCount) ==
    /\ Running
    /\ LET walk == GetBlocksFromBlock(STFS_FileBuffer, STFS_Dirty,
                                      STFS_TableSizeShift, blockNum, blockCount)
       IN  last' = [Call("GetBlocksFromBlock", walk.outcome) EXCEPT
                       !.blockNum = blockNum, !.blockCount = blockCount,
                       !.blocks = walk.blocks]
    /\ UNCHANGED << STFS_FileBuffer, STFS_Dirty, STFS_PackageLoaded,
                    STFS_TableSizeShift, STFS_FileTable, addrVars >>

STFS_ReadFile(file) ==
    /\ Running
    /\ LET r == ReadFile(STFS_FileBuffer, STFS_Dirty, STFS_TableSizeShift, file)
       IN  last' = [Call("ReadFile", r.outcome) EXCEPT
                       !.file = file, !.blocks = r.blocks, !.slices = r.slices]
    /\ UNCHANGED << STFS_FileBuffer, STFS_Dirty, STFS_PackageLoaded,
                    STFS_TableSizeShift, STFS_FileTable, addrVars >>

STFS_GetFilePath(file) ==
    /\ Running
    /\ LET r == GetFilePath(STFS_FileTable, file)
       IN  last' = [Call("GetFilePath", r.outcome) EXCEPT
                       !.file = file, !.path = r.path, !.steps = r.steps]
    /\ UNCHANGED << STFS_FileBuffer, STFS_Dirty, STFS_PackageLoaded,
                    STFS_TableSizeShift, STFS_FileTable, addrVars >>

\* The entries a caller can pass: those of the table (STFS_GetFileTable,
\* STFS_GetFile) and entries it holds itself
Files == SampleFiles \cup Range(STFS_FileTable)

Next ==
    \/ \E abuf \in Buffers : STFS_LoadPackage(abuf)
    \/ STFS_Reset
    \/ STFS_InitFS
    \/ \E b \in WalkBlocks, n \in 1..MaxCount : STFS_GetBlocksFromBlock(b, n)
    \/ \E file \in Files : STFS_ReadFile(file)
    \/ \E file \in Files : STFS_GetFilePath(file)

Spec == Init /\ [][Next]_vars

----------------------------------------------------------------------------
(* Address translation on its own: the variant is drawn at the start and   *)
(* the two translations are applied to sample block numbers.               *)

AddrInit ==
    /\ STFS_FileBuffer = NoBuffer
    /\ STFS_Dirty = FALSE
    /\ STFS_PackageLoaded = FALSE
    /\ STFS_TableSizeShift \in {0, 1}
    /\ STFS_FileTable = << >>
    /\ last = NoCall
    /\ offPrev = [blockNum |-> -1, offset |-> 0]
    /\ offLast = [blockNum |-> -1, offset |-> 0]
    /\ hashLast = [blockNum |-> -1, offset |-> 0]

STFS_BlockToOffset(blockNum) ==
    /\ offPrev' = offLast
    /\ offLast' = [blockNum |-> blockNum,
                   offset |-> BlockToOffset(blockNum, STFS_TableSizeShift)]
    /\ UNCHANGED << containerVars, STFS_TableSizeShift, hashLast >>

STFS_BlockToHashOffset(blockNum) ==
    /\ hashLast' = [blockNum |-> blockNum,
                    offset |-> BlockToHashOffset(blockNum, STFS_TableSizeShift)]
    /\ UNCHANGED << containerVars, STFS_TableSizeShift, offPrev, offLast >>

AddrNext ==
    \/ \E b \in SampleBlocks : STFS_BlockToOffset(b)
    \/ \E b \in SampleBlocks : STFS_BlockToHashOffset(b)

AddrSpec == AddrInit /\ [][AddrNext]_vars

----------------------------------------------------------------------------
(* Properties.                                                             *)

\* The error kinds of the specification, as sets of the exceptions thrown
InvalidState == {"NoPackageLoaded", "DirtyState", "AlreadyLoaded"}
UnrecognizedFormat == {"TooShort", "NotValidArchive"}
Tags == {STFS_CON, STFS_LIVE, STFS_PIRS}

RECURSIVE TotalLength(_)
TotalLength(slices) ==
    IF slices = << >> THEN 0
    ELSE slices[1].length + TotalLength(Tail(slices))

Min(a, b) == IF a < b THEN a ELSE b

\* ceil(fileSize / 4096), and the number of blocks the copy loop visits
BlocksFor(fileSize) == (fileSize + BlockSize - 1) \div BlockSize
BlocksVisited(fileSize) == IF BlocksFor(fileSize) < 1 THEN 1 ELSE BlocksFor(fileSize)

\* The ranges the extraction is to output for a file, given its block chain
ExpectedSlices(file, blocks) ==
    [k \in 1..BlocksVisited(file.fileSize) |->
        [offset |-> BlockToOffset(blocks[k], STFS_TableSizeShift),
         length |-> Min(file.fileSize - (k - 1) * BlockSize, BlockSize)]]

\* A ReadFile call on a non-directory entry whose chain walk yielded at least
\* ceil(fileSize / 4096) blocks
ExtractionCase ==
    /\ last.op = "ReadFile"
    /\ (last.file.flags \div 2) % 2 = 0
    /\ last.blocks # << >>
    /\ Len(last.blocks) >= BlocksFor(last.file.fileSize)

\* Every range the extraction is to output lies inside the held buffer
RangesInBuffer ==
    /\ ~IsNoBuffer(STFS_FileBuffer)
    /\ last.file.fileSize >= 0
    /\ \A k \in 1..BlocksVisited(last.file.fileSize) :
          LET e == ExpectedSlices(last.file, last.blocks)[k]
          IN  e.offset + e.length <= STFS_FileBuffer.len

\* C1: a chain walk with expectedCount >= 1 returns a sequence that begins
\* with startBlock and has at most expectedCount entries (so exactly
\* [startBlock] for expectedCount = 1).
C1_WalkAtMostExpectedCount ==
    (last.op = "GetBlocksFromBlock" /\ last.outcome = "ok" /\ last.blockCount >= 1)
        => /\ last.blocks[1] = last.blockNum
           /\ Len(last.blocks) <= last.blockCount

\* C2: once the table parse has met a record whose first byte is 0, no entry
\* is appended to the file table any more, from the same block or a later one.
C2_NothingAfterStopRecord ==
    (last.op = "InitFS" /\ last.stopAt # -1)
        => Len(STFS_FileTable) = last.stopAt

\* C3 as stated: from the unloaded, non-dirty state a buffer with a recognized
\* tag loads when its length is exactly 0x971A, and is rejected as
\* unrecognized when it is one byte shorter.
C3_LoadsAtThreshold ==
    (last.op = "LoadPackage" /\ ~last.dirty /\ ~last.loaded /\ last.magic \in Tags)
        => /\ (last.len = MinLength => last.outcome = "ok")
           /\ (last.len = MinLength - 1 => last.outcome \in UnrecognizedFormat)

\* C3 as amended: from the unloaded, non-dirty state a buffer with a
\* recognized tag loads when its length is 0x971A + 1, the shortest length
\* above the threshold, and is rejected as unrecognized (too short) when its
\* length is exactly 0x971A.
C3_LoadsAboveThreshold ==
    (last.op = "LoadPackage" /\ ~last.dirty /\ ~last.loaded /\ last.magic \in Tags)
        => /\ (last.len = MinLength + 1 =>
                  last.outcome = "ok" /\ STFS_PackageLoaded)
           /\ (last.len = MinLength =>
                  last.outcome \in UnrecognizedFormat /\ ~STFS_PackageLoaded)

C3_Witness ==
    /\ last.op = "LoadPackage" /\ ~last.dirty /\ ~last.loaded
    /\ last.magic \in Tags
    /\ last.len = MinLength
    /\ last.outcome = "TooShort"

\* C4: while no container is successfully loaded, STFS_InitFS,
\* STFS_GetBlocksFromBlock and STFS_ReadFile fail with an invalid-state error
\* (and so read no byte of any buffer).
C4_NotLoadedIsInvalidState ==
    (last.op \in {"InitFS", "GetBlocksFromBlock", "ReadFile"} /\ ~last.loaded)
        => last.outcome \in InvalidState

\* C5: an extraction that returns normally has output fileSize bytes; fewer
\* bytes are returned only together with a reported error.
C5_NoSilentTruncation ==
    (last.op = "ReadFile" /\ last.outcome = "ok")
        => TotalLength(last.slices) >= last.file.fileSize

\* C6: path reconstruction ends for every table and entry, after at most as
\* many parent steps as the table has entries; a cycle of parent references
\* is reported as an error.
C6_PathWalkBounded ==
    last.op = "GetFilePath"
        => last.outcome # "Hang" /\ last.steps <= Len(STFS_FileTable)

\* C7 as stated: for every non-directory entry whose chain walk yields at
\* least ceil(fileSize / 4096) blocks, the extraction outputs min(remaining,
\* 4096) bytes from each block's data offset in chain order, fileSize bytes
\* in total.
C7_ExtractsFileSizeBytes ==
    ExtractionCase
        => /\ last.outcome = "ok"
           /\ last.slices = ExpectedSlices(last.file, last.blocks)
           /\ TotalLength(last.slices) = last.file.fileSize

\* C7 as amended: the same, for the entries all of whose ranges lie inside
\* the held buffer (for a range that leaves the buffer the call throws a
\* RangeError and outputs nothing).
C7_ExtractsFileSizeBytesInBuffer ==
    (ExtractionCase /\ RangesInBuffer)
        => /\ last.outcome = "ok"
           /\ last.slices = ExpectedSlices(last.file, last.blocks)
           /\ TotalLength(last.slices) = last.file.fileSize

C7_Witness ==
    /\ ExtractionCase /\ RangesInBuffer
    /\ last.file.fileSize = 5000
    /\ Len(last.slices) = 2
    /\ last.slices[1].length = BlockSize
    /\ last.slices[2].length = 904

\* C8: for a fixed variant, STFS_BlockToOffset is strictly increasing in the
\* block index, across the 0xAA and 0x70E4 boundaries too.
C8_OffsetStrictlyIncreasing ==
    /\ (offPrev.blockNum >= 0 /\ offPrev.blockNum < offLast.blockNum)
          => offPrev.offset < offLast.offset
    /\ (offLast.blockNum >= 0 /\ offLast.blockNum < offPrev.blockNum)
          => offLast.offset < offPrev.offset

C8_Witness ==
    /\ STFS_TableSizeShift = 1
    /\ offPrev.blockNum = BlocksPerTable - 1
    /\ offLast.blockNum = BlocksPerL1
    /\ offPrev.offset < offLast.offset

\* C9: for both variants and all blocks b, b', the 24-byte chain record of b
\* does not overlap the 4096-byte payload of b'.
C9_RecordsApartFromData ==
    (hashLast.blockNum >= 0 /\ offLast.blockNum >= 0)
        => \/ hashLast.offset + HashRecordSize <= offLast.offset
           \/ offLast.offset + BlockSize <= hashLast.offset

\* C10: the table parse of a loaded container ends, and every record it
\* decodes for a chain block starts inside that block's payload: at most 64
\* entries per chain block.
C10_RecordsInsideBlock ==
    (last.op = "InitFS" /\ last.loaded)
        => /\ last.outcome # "Hang"
           /\ \A i \in DOMAIN last.perBlock : last.perBlock[i] <= RecordsPerBlock

====
